---- MODULE Spec2Model ----
(***************************************************************************)
(* Conference scheduling: the SolverForge variant (planning entities       *)
(* scored by a constraint provider), its CSV reader, and the OR-Tools      *)
(* variant (a CP-SAT model built and solved by solve_schedule).            *)
(*                                                                         *)
(* The specifications share the variables:                                 *)
(*   Spec      the SolverForge solve: create_problem, then the solver      *)
(*             changing the planning variables of the TalkAssignments;     *)
(*   SpecFlow  the same solve on talks with a flow_order of their own;     *)
(*   SpecOrder the same solve with the talks list given in any order;      *)
(*   SpecSched read_schedule_csv, row by row;                              *)
(*   SpecCsv   read_talks_csv of the SolverForge variant, row by row;      *)
(*   SpecMain  read_talks_csv, create_problem and the solve in sequence;   *)
(*   SpecOrt   solve_schedule of the OR-Tools variant and its outputs;     *)
(*   SpecTracks the solve of either variant on talks with and without a    *)
(*             track name;                                                 *)
(*   SpecAvail read_talks_csv of the OR-Tools variant, whose availability  *)
(*             column goes through parse_available_days.                   *)
(***************************************************************************)
EXTENDS Integers, Sequences, FiniteSets

VARIABLES
    timeslots,   \* the Timeslot ids handed to the solve (sorted by slot_index);
                 \* in SpecSched the list of Timeslot objects read
    rooms,       \* the Room names handed to the solve
    talks,       \* talk index -> Talk facts
    speakers,    \* speakers_dict: speaker id -> Speaker.available_days
    timeslot,    \* talk index -> planning variable timeslot (an id or None)
    room,        \* talk index -> planning variable room (a name or None)
    rows,        \* the rows of the talks CSV (talks holds one talk per row
                 \* read); in SpecSched the schedule rows not yet read
    status_msg,  \* what solve_schedule returns as status: <<>> before the
                 \* solve, <<name>>, or <<name, soft penalty>>
    scheduled,   \* the talks the output functions list, in output order
    pc           \* position of the program: "solving" (SolverForge solve),
                 \* "reading" / "read" (read_talks_csv), "start" / "done"
                 \* (solve_schedule), "written" (the outputs),
                 \* "reading_talks" / "talks_read" (SpecAvail)

vars == <<timeslots, rooms, talks, speakers, timeslot, room, rows,
          status_msg, scheduled, pc>>

\* ---------------------------------------------------------------- bounds
\* Talks of a SolverForge problem.
NumTalks == 2

\* Rows of a talks CSV.
MaxRows == 3

\* Talks given to solve_schedule (OR-Tools).
MaxOrtTalks == 3

\* Rows of a schedule CSV.
MaxScheduleRows == 2

\* Rows of a talks CSV that is read and then solved.
MaxLevelRows == 2

\* ------------------------------------------------------------- the facts
\* Python's None, as the value of an Optional planning variable.
None == "None"

\* The timeslots a schedule CSV declares: two on the first day, one on the
\* second.
Timeslot ==
    { [id |-> "D0-09:00", day_index |-> 0, hour |-> 9,  minute |-> 0],
      [id |-> "D0-10:00", day_index |-> 0, hour |-> 10, minute |-> 0],
      [id |-> "D1-09:00", day_index |-> 1, hour |-> 9,  minute |-> 0] }

TimeslotIds == { t.id : t \in Timeslot }

TimeslotOf(id) == CHOOSE t \in Timeslot : t.id = id

\* Timeslot.slot_index: day * 10000 + minutes from midnight.
slot_index(id) ==
    LET t == TimeslotOf(id) IN t.day_index * 10000 + t.hour * 60 + t.minute

Days == { t.day_index : t \in Timeslot }

Room == {"R1", "R2"}

SpeakerIds == {"alice", "bob"}

TrackNames == {"", "A"}

AudienceLevels == {"BEGINNER", "INTERMEDIATE", "ADVANCED"}

\* str.upper() on a level.
upper(str) ==
    CASE str = "advanced" -> "ADVANCED"
      [] str = "beginner" -> "BEGINNER"
      [] str = "expert" -> "EXPERT"
      [] OTHER -> str

\* Talk.level_order:
\* {"BEGINNER": 1, "INTERMEDIATE": 2, "ADVANCED": 3}.get(audience_level.upper(), 2)
level_order(talk) ==
    CASE upper(talk.audience_level) = "BEGINNER" -> 1
      [] upper(talk.audience_level) = "INTERMEDIATE" -> 2
      [] upper(talk.audience_level) = "ADVANCED" -> 3
      [] OTHER -> 2

\* Speaker.is_available_on: an empty set means every day.
is_available_on(available_days, day_index) ==
    available_days = {} \/ day_index \in available_days

TalkIds == 1..NumTalks

\* ------------------------------------------- TalkAssignment (planning entity)
\* TalkAssignment.get_slot_index / get_day_index are None without a timeslot;
\* the operators below are only applied to a talk that holds a timeslot.
get_slot_index(a) == slot_index(timeslot[a])

get_day_index(a) == TimeslotOf(timeslot[a]).day_index

\* Joiners.equal(lambda a: a.get_day_index()): None equals None only.
EqualDayIndex(a1, a2) ==
    \/ timeslot[a1] = None /\ timeslot[a2] = None
    \/ /\ timeslot[a1] # None
       /\ timeslot[a2] # None
       /\ get_day_index(a1) = get_day_index(a2)

\* for_each_unique_pair(TalkAssignment): every unordered pair of distinct
\* entities of the collection, taken once.
UniquePairs(entities) ==
    { p \in entities \X entities : p[1] < p[2] }

\* The TalkSpeaker links read_talks_csv builds: one per (talk, speaker).
TalkSpeaker(entities) ==
    { l \in [talk_id : entities, speaker : SpeakerIds] :
        l.speaker \in talks[l.talk_id].speakers }

\* ------------------------------------------------------- hard constraints
\* Each constraint is the number of matches of its stream: the tuples that
\* pass the joiners and the filters, each penalized by ONE_HARD / ONE_SOFT.
\* `entities` is the TalkAssignment collection the stream ranges over.

\* One talk per room per timeslot.
room_conflict(entities) ==
    Cardinality({ p \in UniquePairs(entities) :
        /\ room[p[1]] = room[p[2]]
        /\ timeslot[p[1]] = timeslot[p[2]]
        /\ timeslot[p[1]] # None /\ room[p[1]] # None })

\* speaker_conflict with the two assignments also joined on the room.
speaker_conflict_SameRoomOnly(entities) ==
    Cardinality({ q \in TalkSpeaker(entities) \X TalkSpeaker(entities) :
        /\ q[1].talk_id < q[2].talk_id
        /\ q[1].speaker = q[2].speaker
        /\ timeslot[q[1].talk_id] = timeslot[q[2].talk_id]
        /\ room[q[1].talk_id] = room[q[2].talk_id]
        /\ timeslot[q[1].talk_id] # None })

\* Pairs of TalkSpeaker links with the same speaker, each joined to the
\* assignment of its talk, the two assignments in the same timeslot.
speaker_conflict(entities) ==
    Cardinality({ q \in TalkSpeaker(entities) \X TalkSpeaker(entities) :
        /\ q[1].talk_id < q[2].talk_id
        /\ q[1].speaker = q[2].speaker
        /\ timeslot[q[1].talk_id] = timeslot[q[2].talk_id]
        /\ timeslot[q[1].talk_id] # None })

\* track_conflict with the pair also joined on the room.
track_conflict_SameRoomOnly(entities) ==
    Cardinality({ p \in UniquePairs(entities) :
        /\ talks[p[1]].track_name = talks[p[2]].track_name
        /\ timeslot[p[1]] = timeslot[p[2]]
        /\ room[p[1]] = room[p[2]]
        /\ timeslot[p[1]] # None })

\* Same track can't run in parallel.
track_conflict(entities) ==
    Cardinality({ p \in UniquePairs(entities) :
        /\ talks[p[1]].track_name = talks[p[2]].track_name
        /\ timeslot[p[1]] = timeslot[p[2]]
        /\ timeslot[p[1]] # None })

\* _all_speakers_available(talk, day_index)
_all_speakers_available(talk, day_index) ==
    \A s \in talk.speakers : is_available_on(speakers[s], day_index)

\* Speaker must be available on scheduled day.
speaker_availability(entities) ==
    Cardinality({ a \in entities :
        /\ timeslot[a] # None
        /\ ~ _all_speakers_available(talks[a], get_day_index(a)) })

\* ------------------------------------------------------- soft constraints
\* _violates_level_flow looking at the pair in one direction only.
_violates_level_flow_OneWay(a1, a2) ==
    LET level1 == level_order(talks[a1])
        level2 == level_order(talks[a2])
    IN  IF timeslot[a1] = None \/ timeslot[a2] = None THEN FALSE
        ELSE level1 > level2 /\ get_slot_index(a1) < get_slot_index(a2)

_violates_level_flow(a1, a2) ==
    LET level1 == level_order(talks[a1])
        level2 == level_order(talks[a2])
    IN  IF timeslot[a1] = None \/ timeslot[a2] = None THEN FALSE
        ELSE \/ level1 > level2 /\ get_slot_index(a1) < get_slot_index(a2)
             \/ level2 > level1 /\ get_slot_index(a2) < get_slot_index(a1)

\* _violates_flow_order without the test for a flow_order of 0.
_violates_flow_order_ZeroOrdered(a1, a2) ==
    LET order1 == talks[a1].flow_order
        order2 == talks[a2].flow_order
    IN  IF order1 = order2 THEN FALSE
        ELSE IF timeslot[a1] = None \/ timeslot[a2] = None THEN FALSE
        ELSE \/ order1 > order2 /\ get_slot_index(a1) < get_slot_index(a2)
             \/ order2 > order1 /\ get_slot_index(a2) < get_slot_index(a1)

_violates_flow_order(a1, a2) ==
    LET order1 == talks[a1].flow_order
        order2 == talks[a2].flow_order
    IN  IF order1 = order2 \/ order1 = 0 \/ order2 = 0 THEN FALSE
        ELSE IF timeslot[a1] = None \/ timeslot[a2] = None THEN FALSE
        ELSE \/ order1 > order2 /\ get_slot_index(a1) < get_slot_index(a2)
             \/ order2 > order1 /\ get_slot_index(a2) < get_slot_index(a1)

educational_flow_level(entities) ==
    Cardinality({ p \in UniquePairs(entities) :
        /\ talks[p[1]].track_name = talks[p[2]].track_name
        /\ EqualDayIndex(p[1], p[2])
        /\ timeslot[p[1]] # None /\ timeslot[p[2]] # None
        /\ _violates_level_flow(p[1], p[2]) })

educational_flow_order(entities) ==
    Cardinality({ p \in UniquePairs(entities) :
        /\ talks[p[1]].track_name = talks[p[2]].track_name
        /\ EqualDayIndex(p[1], p[2])
        /\ timeslot[p[1]] # None /\ timeslot[p[2]] # None
        /\ _violates_flow_order(p[1], p[2]) })

\* The filters look at the rooms only, not at the timeslots.
track_room_consistency(entities) ==
    Cardinality({ p \in UniquePairs(entities) :
        /\ talks[p[1]].track_name = talks[p[2]].track_name
        /\ EqualDayIndex(p[1], p[2])
        /\ room[p[1]] # None /\ room[p[2]] # None
        /\ room[p[1]] # room[p[2]] })

\* conference_constraints: the HardSoftScore of the solution.
HardScore(entities) ==
    room_conflict(entities) + speaker_conflict(entities)
      + track_conflict(entities) + speaker_availability(entities)

SoftScore(entities) ==
    educational_flow_level(entities) + educational_flow_order(entities)
      + track_room_consistency(entities)

\* ------------------------------------------------- the SolverForge solve
\* Talk facts as read_talks_csv builds them: flow_order is the level rank.
Talk ==
    { t \in [track_name : TrackNames, audience_level : AudienceLevels,
             speakers : SUBSET SpeakerIds, flow_order : 1..3] :
        /\ t.speakers # {}
        /\ t.flow_order = level_order(t) }

\* The problems a solve is started on: either the levels are left at the
\* default and the speakers vary (with alice's availability), or every talk
\* is alice's and the levels vary.
Problems ==
    { p \in [talks : [TalkIds -> Talk], speakers : [SpeakerIds -> SUBSET Days]] :
        /\ p.speakers["bob"] = {}
        /\ p.speakers["alice"] # Days
        /\ \/ \A t \in TalkIds : p.talks[t].audience_level = "INTERMEDIATE"
           \/ /\ \A t \in TalkIds : p.talks[t].speakers = {"alice"}
              /\ p.speakers["alice"] = {} }

\* create_problem: every TalkAssignment starts with timeslot and room None.
Init ==
    /\ \E p \in Problems : talks = p.talks /\ speakers = p.speakers
    /\ timeslots = TimeslotIds
    /\ rooms = Room
    /\ timeslot = [t \in TalkIds |-> None]
    /\ room = [t \in TalkIds |-> None]
    /\ rows = <<>>
    /\ status_msg = <<>>
    /\ scheduled = <<>>
    /\ pc = "solving"

\* solver.solve: a move sets the timeslot variable of one entity to a value
\* of the value range.
ChangeTimeslot(a, value) ==
    /\ pc = "solving"
    /\ timeslot[a] # value
    /\ timeslot' = [timeslot EXCEPT ![a] = value]
    /\ UNCHANGED <<timeslots, rooms, talks, speakers, room, rows,
                   status_msg, scheduled, pc>>

\* solver.solve: a move sets the room variable of one entity.
ChangeRoom(a, value) ==
    /\ pc = "solving"
    /\ room[a] # value
    /\ room' = [room EXCEPT ![a] = value]
    /\ UNCHANGED <<timeslots, rooms, talks, speakers, timeslot, rows,
                   status_msg, scheduled, pc>>

Next ==
    \/ \E a \in TalkIds, value \in timeslots : ChangeTimeslot(a, value)
    \/ \E a \in TalkIds, value \in rooms : ChangeRoom(a, value)

Spec == Init /\ [][Next]_vars

\* ------------------------------------------ talks with their own flow_order
\* Talk facts built with a flow_order of their own: 0 (the default of the
\* dataclass: not ordered) or a position in the flow.
FlowTalk ==
    [track_name : TrackNames, audience_level : {"INTERMEDIATE"},
     speakers : {{"alice"}}, flow_order : 0..2]

FlowInit ==
    /\ talks \in [TalkIds -> FlowTalk]
    /\ speakers = [id \in SpeakerIds |-> {}]
    /\ timeslots = TimeslotIds
    /\ rooms = Room
    /\ timeslot = [t \in TalkIds |-> None]
    /\ room = [t \in TalkIds |-> None]
    /\ rows = <<>>
    /\ status_msg = <<>>
    /\ scheduled = <<>>
    /\ pc = "solving"

SpecFlow == FlowInit /\ [][Next]_vars

\* ------------------------------------------ the order of the talks list
\* The problems whose talks list is reordered: the levels are left at the
\* default and the tracks and speakers vary (alice not available on every
\* day), or every talk is alice's talk of track "A" and the levels vary, or
\* the flow_orders do.
OrderProblems ==
    { p \in [talks : [TalkIds -> Talk \cup FlowTalk],
             speakers : [SpeakerIds -> SUBSET Days]] :
        /\ p.speakers["bob"] = {}
        /\ \/ /\ \A t \in TalkIds :
                    /\ p.talks[t] \in Talk
                    /\ p.talks[t].audience_level = "INTERMEDIATE"
              /\ p.speakers["alice"] = {0}
           \/ /\ \A t \in TalkIds :
                    /\ p.talks[t] \in Talk
                    /\ p.talks[t].track_name = "A"
                    /\ p.talks[t].speakers = {"alice"}
              /\ p.speakers["alice"] = {}
           \/ /\ \A t \in TalkIds :
                    /\ p.talks[t] \in FlowTalk
                    /\ p.talks[t].track_name = "A"
              /\ p.speakers["alice"] = {} }

OrderInit ==
    /\ \E p \in OrderProblems : talks = p.talks /\ speakers = p.speakers
    /\ timeslots = TimeslotIds
    /\ rooms = Room
    /\ timeslot = [t \in TalkIds |-> None]
    /\ room = [t \in TalkIds |-> None]
    /\ rows = <<>>
    /\ status_msg = <<>>
    /\ scheduled = <<>>
    /\ pc = "solving"

\* The same talks handed to create_problem in another order: the entities
\* at positions i and j of talk_assignments change places, so that the
\* unique pairs are formed the other way round.
ReorderTalks(i, j) ==
    /\ pc = "solving"
    /\ talks' = [talks EXCEPT ![i] = talks[j], ![j] = talks[i]]
    /\ timeslot' = [timeslot EXCEPT ![i] = timeslot[j], ![j] = timeslot[i]]
    /\ room' = [room EXCEPT ![i] = room[j], ![j] = room[i]]
    /\ UNCHANGED <<timeslots, rooms, speakers, rows, status_msg, scheduled, pc>>

OrderNext ==
    \/ \E a \in TalkIds, value \in timeslots : ChangeTimeslot(a, value)
    \/ \E a \in TalkIds, value \in rooms : ChangeRoom(a, value)
    \/ \E i, j \in TalkIds : i < j /\ ReorderTalks(i, j)

SpecOrder == OrderInit /\ [][OrderNext]_vars

\* ------------------------------------------------- read_schedule_csv
\* h, m = map(int, from_hour.split(':'))
split_hm(from_hour) ==
    CASE from_hour = "00:00" -> <<0, 0>>
      [] from_hour = "09:00" -> <<9, 0>>
      [] from_hour = "09:30" -> <<9, 30>>
      [] from_hour = "23:59" -> <<23, 59>>

\* Timeslot.slot_index with the day weighing 1000.
slot_index_of_DayWeight1000(t) ==
    LET hm == split_hm(t.from_hour)
    IN  t.day_index * 1000 + hm[1] * 60 + hm[2]

\* Timeslot.slot_index of a Timeslot object.
slot_index_of(t) ==
    LET hm == split_hm(t.from_hour)
    IN  t.day_index * 10000 + hm[1] * 60 + hm[2]

\* A row of the schedule CSV in the multi-day format: day, from, to, room.
ScheduleRow ==
    [day : {"Wed", "Thu"}, from_hour : {"00:00", "09:00", "09:30", "23:59"},
     to_hour : {"10:00", "10:30"}, room : {"R1"}]

ScheduleFiles == UNION { [1..n -> ScheduleRow] : n \in 0..MaxScheduleRows }

\* day_map: a day name is added together with the first timeslot of that
\* day, so the map is read off the timeslots made so far.
day_map ==
    [ name \in { timeslots[i].day_name : i \in 1..Len(timeslots) } |->
        (CHOOSE t \in { timeslots[i] : i \in 1..Len(timeslots) } :
            t.day_name = name).day_index ]

\* seen_slots
seen_slots == { timeslots[i].id : i \in 1..Len(timeslots) }

\* list.sort(key=slot_index), stable: a timeslot goes behind those of a
\* smaller or equal key.
InsertSlot(sorted, t) ==
    LET n == Cardinality({ i \in 1..Len(sorted) :
                             slot_index_of(sorted[i]) <= slot_index_of(t) })
    IN  SubSeq(sorted, 1, n) \o <<t>> \o SubSeq(sorted, n + 1, Len(sorted))

RECURSIVE SortSlots(_)
SortSlots(list) ==
    IF list = <<>> THEN <<>>
    ELSE InsertSlot(SortSlots(SubSeq(list, 1, Len(list) - 1)), list[Len(list)])

SchedInit ==
    /\ rows \in ScheduleFiles
    /\ timeslots = <<>>
    /\ rooms = <<>>
    /\ talks = <<>>
    /\ speakers = <<>>
    /\ timeslot = <<>>
    /\ room = <<>>
    /\ status_msg = <<>>
    /\ scheduled = <<>>
    /\ pc = "reading_schedule"

\* One iteration of `for row in reader`; rows holds the rows not yet read.
\* The id stands for f"D{day_index}-{from_hour}-{to_hour}".
ReadScheduleRow ==
    /\ pc = "reading_schedule"
    /\ rows # <<>>
    /\ LET row == Head(rows)
           day_index == IF row.day \in DOMAIN day_map THEN day_map[row.day]
                        ELSE Cardinality(DOMAIN day_map)
           slot_id == <<day_index, row.from_hour, row.to_hour>>
       IN  /\ timeslots' =
                 IF slot_id \notin seen_slots
                 THEN Append(timeslots,
                        [id |-> slot_id, from_hour |-> row.from_hour,
                         to_hour |-> row.to_hour, day_index |-> day_index,
                         day_name |-> row.day])
                 ELSE timeslots
           /\ rooms' =
                 IF row.room \notin { rooms[i] : i \in 1..Len(rooms) }
                 THEN Append(rooms, row.room) ELSE rooms
    /\ rows' = Tail(rows)
    /\ UNCHANGED <<talks, speakers, timeslot, room, status_msg, scheduled, pc>>

\* The reader is exhausted: the timeslots are sorted and returned.
ReturnSchedule ==
    /\ pc = "reading_schedule"
    /\ rows = <<>>
    /\ timeslots' = SortSlots(timeslots)
    /\ pc' = "schedule_read"
    /\ UNCHANGED <<rooms, talks, speakers, timeslot, room, rows, status_msg,
                   scheduled>>

SchedNext == ReadScheduleRow \/ ReturnSchedule

SpecSched == SchedInit /\ [][SchedNext]_vars

\* ------------------------------------------------- read_talks_csv (SolverForge)
\* speaker_id = name.lower().replace(' ', '_')
speaker_id(name) ==
    CASE name = "Alice" -> "alice"
      [] name = "Bob" -> "bob"
      [] OTHER -> name

\* A row of the talks CSV: the level column, the track column, the days
\* parse_available_days returns for the availability column, and the names
\* of the speakers column.
CsvRow ==
    [level : {"", "advanced"}, track : {"A"},
     available_days : SUBSET Days,
     speaker_names : (SUBSET {"Alice", "Bob"}) \ {{}}]

CsvFiles == UNION { [1..n -> CsvRow] : n \in 0..MaxRows }

\* The rows read so far: every row appends one talk.
RowsRead == SubSeq(rows, 1, Len(talks))

\* The body of the loop over the names of a row: a new speaker takes the
\* row's days; a known speaker is merged, a row without days changing
\* nothing and a speaker without days taking the row's.
MergeSpeaker(dict, id, available_days) ==
    IF id \notin DOMAIN dict
    THEN [s \in DOMAIN dict \cup {id} |->
            IF s = id THEN available_days ELSE dict[s]]
    ELSE IF available_days # {}
         THEN IF dict[id] # {}
              THEN [dict EXCEPT ![id] = dict[id] \cap available_days]
              ELSE [dict EXCEPT ![id] = available_days]
         ELSE dict

RECURSIVE MergeSpeakers(_, _, _)
MergeSpeakers(dict, names, available_days) ==
    IF names = {} THEN dict
    ELSE LET name == CHOOSE n \in names : TRUE
         IN  MergeSpeakers(MergeSpeaker(dict, speaker_id(name), available_days),
                           names \ {name}, available_days)

\* The Talk a row makes, an unrecognized level leaving the flow_order at 0.
TalkOfRow_UnknownLevelUnordered(row) ==
    LET level == IF upper(row.level) = "" THEN "INTERMEDIATE"
                 ELSE upper(row.level)
    IN  [track_name |-> row.track,
         audience_level |-> level,
         speakers |-> { speaker_id(n) : n \in row.speaker_names },
         flow_order |-> CASE level = "BEGINNER" -> 1
                          [] level = "INTERMEDIATE" -> 2
                          [] level = "ADVANCED" -> 3
                          [] OTHER -> 0]

\* The Talk a row makes.
TalkOfRow(row) ==
    LET level == IF upper(row.level) = "" THEN "INTERMEDIATE"
                 ELSE upper(row.level)
    IN  [track_name |-> row.track,
         audience_level |-> level,
         speakers |-> { speaker_id(n) : n \in row.speaker_names },
         flow_order |-> CASE level = "BEGINNER" -> 1
                          [] level = "INTERMEDIATE" -> 2
                          [] level = "ADVANCED" -> 3
                          [] OTHER -> 2]

CsvInit ==
    /\ rows \in CsvFiles
    /\ talks = <<>>
    /\ speakers = <<>>
    /\ timeslots = TimeslotIds
    /\ rooms = Room
    /\ timeslot = <<>>
    /\ room = <<>>
    /\ status_msg = <<>>
    /\ scheduled = <<>>
    /\ pc = "reading"

\* One iteration of `for row in reader`.
ReadRow ==
    /\ pc = "reading"
    /\ Len(talks) < Len(rows)
    /\ LET row == rows[Len(talks) + 1]
       IN  /\ speakers' = MergeSpeakers(speakers, row.speaker_names,
                                        row.available_days)
           /\ talks' = Append(talks, TalkOfRow(row))
    /\ UNCHANGED <<timeslots, rooms, timeslot, room, rows,
                   status_msg, scheduled, pc>>

\* The reader is exhausted: read_talks_csv returns.
ReturnTalks ==
    /\ pc = "reading"
    /\ Len(talks) = Len(rows)
    /\ pc' = "read"
    /\ UNCHANGED <<timeslots, rooms, talks, speakers, timeslot, room, rows,
                   status_msg, scheduled>>

CsvNext == ReadRow \/ ReturnTalks

SpecCsv == CsvInit /\ [][CsvNext]_vars

\* ------------------------------------- main: read_talks_csv, then the solve
\* Rows whose level column varies: empty, a level in lower case, or a word
\* that is no level; one track, one speaker, no availability.
LevelRow ==
    [level : {"", "beginner", "advanced", "expert"}, track : {"A"},
     available_days : {{}}, speaker_names : {{"Alice"}}]

LevelFiles == UNION { [1..n -> LevelRow] : n \in 0..MaxLevelRows }

MainInit ==
    /\ rows \in LevelFiles
    /\ talks = <<>>
    /\ speakers = <<>>
    /\ timeslots = TimeslotIds
    /\ rooms = Room
    /\ timeslot = <<>>
    /\ room = <<>>
    /\ status_msg = <<>>
    /\ scheduled = <<>>
    /\ pc = "reading"

\* create_problem on the talks read: one TalkAssignment per talk, timeslot
\* and room None.
create_problem ==
    /\ pc = "read"
    /\ pc' = "solving"
    /\ timeslot' = [t \in DOMAIN talks |-> None]
    /\ room' = [t \in DOMAIN talks |-> None]
    /\ UNCHANGED <<timeslots, rooms, talks, speakers, rows, status_msg,
                   scheduled>>

MainNext ==
    \/ ReadRow
    \/ ReturnTalks
    \/ create_problem
    \/ \E a \in DOMAIN timeslot, value \in timeslots : ChangeTimeslot(a, value)
    \/ \E a \in DOMAIN room, value \in rooms : ChangeRoom(a, value)

SpecMain == MainInit /\ [][MainNext]_vars

\* ------------------------------------------------- solve_schedule (OR-Tools)
\* str.lower() on a speaker name.
lower(str) ==
    CASE str = "Alice" -> "alice"
      [] str = "Bob" -> "bob"
      [] str = "Carol" -> "carol"
      [] str = "Dave" -> "dave"
      [] str = "Eve" -> "eve"
      [] OTHER -> str

\* has_speaker_overlap: the lower-cased speakers lists intersect.
has_speaker_overlap(talk1, talk2) ==
    { lower(n) : n \in talk1.speaker_names }
        \cap { lower(n) : n \in talk2.speaker_names } # {}

\* The talks of the inputs: talk i is in track "A", in a track of its own or
\* has an empty track column, and is given by Alice or by a speaker of its
\* own.
OwnTrack(i) == CASE i = 1 -> "B" [] i = 2 -> "C" [] i = 3 -> "D" [] OTHER -> "E"

OwnSpeaker(i) ==
    CASE i = 1 -> "Bob" [] i = 2 -> "Carol" [] i = 3 -> "Dave" [] OTHER -> "Eve"

\* A Talk as the OR-Tools read_talks_csv builds it: its own available_days
\* (empty: every day), flow_order the level rank, no timeslot and no room.
OrtTalk(i, c) ==
    [track_name |-> IF c.no_track THEN ""
                    ELSE IF c.shared_track THEN "A" ELSE OwnTrack(i),
     audience_level |-> c.level,
     speaker_names |-> IF c.shared_speaker THEN {"Alice"} ELSE {OwnSpeaker(i)},
     available_days |-> c.available_days,
     flow_order |-> level_order([audience_level |-> c.level])]

\* Inputs where the tracks and the levels vary.
FlowChoices ==
    [shared_track : BOOLEAN, no_track : {FALSE},
     level : {"BEGINNER", "ADVANCED"},
     shared_speaker : {FALSE}, available_days : {{}}]

\* Inputs where the speakers and the available days vary.
AvailChoices ==
    [shared_track : {FALSE}, no_track : {FALSE}, level : {"INTERMEDIATE"},
     shared_speaker : BOOLEAN, available_days : {{}, {0}, {1}}]

\* Inputs where the track column is empty or not, and the levels vary.
NoTrackChoices ==
    [shared_track : {FALSE}, no_track : BOOLEAN,
     level : {"BEGINNER", "ADVANCED"},
     shared_speaker : {FALSE}, available_days : {{}}]

OrtTalkLists ==
    UNION { { [i \in 1..n |-> OrtTalk(i, c[i])] :
                c \in [1..n -> FlowChoices] \cup [1..n -> AvailChoices]
                        \cup [1..n -> NoTrackChoices] } :
            n \in 0..MaxOrtTalks }

\* The schedules read_schedule_csv hands over: no timeslot, two on one day,
\* or one on each of two days; no room, one or two.
OrtSchedules ==
    [timeslots : { {}, {"D0-09:00", "D0-10:00"}, {"D0-09:00", "D1-09:00"} },
     rooms : { {}, {"R1"}, {"R1", "R2"} }]

OrtInit ==
    /\ talks \in OrtTalkLists
    /\ \E sch \in OrtSchedules : timeslots = sch.timeslots /\ rooms = sch.rooms
    /\ timeslot = [t \in DOMAIN talks |-> None]
    /\ room = [t \in DOMAIN talks |-> None]
    /\ speakers = <<>>
    /\ rows = <<>>
    /\ status_msg = <<>>
    /\ scheduled = <<>>
    /\ pc = "start"

num_talks == Len(talks)

\* The index s of a timeslot in the list sorted by slot_index.
timeslot_idx(id) ==
    Cardinality({ u \in timeslots : slot_index(u) < slot_index(id) })

\* AddExactlyOne per talk: the values of assign[(t, s, r)] are a function
\* from the talks to the (timeslot, room) pairs.
Assignments == [1..num_talks -> timeslots \X rooms]

\* The hard constraints added to the model.
RoomConstraint(f) ==
    \A t1, t2 \in 1..num_talks : t1 < t2 => f[t1] # f[t2]

SpeakerConstraint(f) ==
    \A t1, t2 \in 1..num_talks :
        t1 < t2 /\ has_speaker_overlap(talks[t1], talks[t2])
            => f[t1][1] # f[t2][1]

\* TrackConstraint with the talks of an empty track name left out.
TrackConstraint_NamedTracksOnly(f) ==
    \A t1, t2 \in 1..num_talks :
        ( /\ t1 < t2
          /\ talks[t1].track_name = talks[t2].track_name
          /\ talks[t1].track_name # "" )
            => f[t1][1] # f[t2][1]

TrackConstraint(f) ==
    \A t1, t2 \in 1..num_talks :
        t1 < t2 /\ talks[t1].track_name = talks[t2].track_name
            => f[t1][1] # f[t2][1]

AvailabilityConstraint(f) ==
    \A t \in 1..num_talks :
        talks[t].available_days # {}
            => TimeslotOf(f[t][1]).day_index \in talks[t].available_days

\* The solutions of the CP-SAT model.
Solutions ==
    { f \in Assignments :
        /\ RoomConstraint(f)
        /\ SpeakerConstraint(f)
        /\ TrackConstraint(f)
        /\ AvailabilityConstraint(f) }

\* soft_penalties: one violation variable per pair of talks of one track
\* with different levels.
soft_penalties ==
    { p \in (1..num_talks) \X (1..num_talks) :
        /\ p[1] < p[2]
        /\ talks[p[1]].track_name = talks[p[2]].track_name
        /\ level_order(talks[p[1]]) # level_order(talks[p[2]]) }

\* flow_violation with the comparison of the timeslot indexes turned round.
flow_violation_LowerLevelFirst(f, p) ==
    LET level1 == level_order(talks[p[1]])
        level2 == level_order(talks[p[2]])
        ts1 == timeslot_idx(f[p[1]][1])
        ts2 == timeslot_idx(f[p[2]][1])
    IN  IF level1 > level2 THEN ts1 > ts2 ELSE ts1 < ts2

\* The value the two OnlyEnforceIf constraints give the violation variable:
\* the talk of the higher level has the smaller timeslot index.
flow_violation(f, p) ==
    LET level1 == level_order(talks[p[1]])
        level2 == level_order(talks[p[2]])
        ts1 == timeslot_idx(f[p[1]][1])
        ts2 == timeslot_idx(f[p[2]][1])
    IN  IF level1 > level2 THEN ts1 < ts2 ELSE ts1 > ts2

\* model.Minimize(sum(soft_penalties))
ObjectiveValue(f) == Cardinality({ p \in soft_penalties : flow_violation(f, p) })

\* The extraction setting the timeslot of each talk and not its room.
ExtractSolution_TimeslotOnly(name, f) ==
    /\ timeslot' = [t \in 1..num_talks |-> f[t][1]]
    /\ room' = room
    /\ status_msg' = <<name, IF soft_penalties # {} THEN ObjectiveValue(f) ELSE 0>>

\* The extraction of a solution into the talks and the status message.
ExtractSolution(name, f) ==
    /\ timeslot' = [t \in 1..num_talks |-> f[t][1]]
    /\ room' = [t \in 1..num_talks |-> f[t][2]]
    /\ status_msg' = <<name, IF soft_penalties # {} THEN ObjectiveValue(f) ELSE 0>>

\* The statuses the solver can end with when it returns no solution.
NoSolutionStatus ==
    (IF Solutions = {} THEN {"INFEASIBLE"} ELSE {})
      \cup (IF num_talks > 0 /\ timeslots = {} THEN {"MODEL_INVALID"} ELSE {})
      \cup (IF num_talks > 0 THEN {"UNKNOWN"} ELSE {})

\* solve_schedule: the model is built, the solver runs within its time
\* limit and ends with one of its statuses. OPTIMAL: a solution of least
\* objective (any solution when there is no objective). FEASIBLE: some
\* solution, the limit reached before the optimum was proved. Otherwise no
\* solution is extracted.
solve_schedule ==
    /\ pc = "start"
    /\ pc' = "done"
    /\ \/ \E f \in Solutions :
            /\ \A g \in Solutions : ObjectiveValue(f) <= ObjectiveValue(g)
            /\ ExtractSolution("OPTIMAL", f)
       \/ \E f \in Solutions :
            /\ soft_penalties # {}
            /\ ExtractSolution("FEASIBLE", f)
       \/ \E name \in NoSolutionStatus :
            /\ status_msg' = <<name>>
            /\ UNCHANGED <<timeslot, room>>
    /\ UNCHANGED <<timeslots, rooms, talks, speakers, rows, scheduled>>

\* The order of two room names (str comparison).
name_before(name1, name2) == name1 = "R1" /\ name2 = "R2"

\* The sort key (t.timeslot.slot_index, t.room.name) of the output functions;
\* list.sort is stable, talks of equal key keep the order of the talks list.
output_before(t1, t2) ==
    \/ slot_index(timeslot[t1]) < slot_index(timeslot[t2])
    \/ /\ slot_index(timeslot[t1]) = slot_index(timeslot[t2])
       /\ \/ name_before(room[t1], room[t2])
          \/ room[t1] = room[t2] /\ t1 < t2

\* print_schedule, write_csv_output and write_markdown_output: each lists
\* the talks that hold a timeslot and a room, sorted; the other talks are
\* written nowhere.
write_csv_output ==
    /\ pc = "done"
    /\ pc' = "written"
    /\ LET kept == { t \in DOMAIN talks :
                       timeslot[t] # None /\ room[t] # None }
       IN  scheduled' =
             CHOOSE seq \in [1..Cardinality(kept) -> kept] :
                 \A i, j \in 1..Cardinality(kept) :
                     i < j => output_before(seq[i], seq[j])
    /\ UNCHANGED <<timeslots, rooms, talks, speakers, timeslot, room, rows,
                   status_msg>>

OrtNext == solve_schedule \/ write_csv_output

SpecOrt == OrtInit /\ [][OrtNext]_vars

\* ------------------------------------------------- the two variants together
\* A run of either variant: the SolverForge solve on talks of alice whose
\* tracks (empty or "A") and levels vary, or solve_schedule on its inputs.
TrackInit ==
    /\ \E p \in Problems :
          /\ \A t \in TalkIds : p.talks[t].speakers = {"alice"}
          /\ p.speakers["alice"] = {}
          /\ talks = p.talks /\ speakers = p.speakers
    /\ timeslots = TimeslotIds
    /\ rooms = Room
    /\ timeslot = [t \in TalkIds |-> None]
    /\ room = [t \in TalkIds |-> None]
    /\ rows = <<>>
    /\ status_msg = <<>>
    /\ scheduled = <<>>
    /\ pc = "solving"

TracksNext ==
    \/ \E a \in TalkIds, value \in timeslots : ChangeTimeslot(a, value)
    \/ \E a \in TalkIds, value \in rooms : ChangeRoom(a, value)
    \/ solve_schedule
    \/ write_csv_output

TracksInit == TrackInit \/ OrtInit

SpecTracks == TracksInit /\ [][TracksNext]_vars

\* ------------------------------------------------- parse_available_days
\* An availability cell is the list of the parts that
\* avail_str.replace(';', ',').split(',') yields; the empty cell is <<"">>.
MaxParts == 2

PartStrings == {"", " 2", "Wed", "day", "Fri", "Thursday pm"}

AvailStrings == UNION { [1..n -> PartStrings] : n \in 1..MaxParts }

\* str.strip()
strip(str) == CASE str = " 2" -> "2" [] OTHER -> str

\* str.lower() on a part or a day name.
lower_day(str) ==
    CASE str = "Wed" -> "wed"
      [] str = "Fri" -> "fri"
      [] str = "Thursday pm" -> "thursday pm"
      [] str = "Wednesday" -> "wednesday"
      [] str = "Thursday" -> "thursday"
      [] OTHER -> str

\* int(part) raises no ValueError.
is_int(part) == part \in {"0", "1", "2"}

\* int(part)
int(part) == CASE part = "0" -> 0 [] part = "1" -> 1 [] part = "2" -> 2

\* `sub in whole` on the lower-cased strings in use.
is_in(sub, whole) ==
    \/ sub = ""
    \/ sub = whole
    \/ <<sub, whole>> \in { <<"wed", "wednesday">>, <<"day", "wednesday">>,
                             <<"day", "thursday">>, <<"day", "thursday pm">>,
                             <<"thursday", "thursday pm">> }

\* `for i, day_name in enumerate(day_names)` from the i-th name on: the
\* first match is added and the loop left; names is indexed from 1 and the
\* day index added is i - 1.
RECURSIVE first_matching_day(_, _, _)
first_matching_day(part, names, i) ==
    IF i > Len(names) THEN {}
    ELSE IF is_in(part, lower_day(names[i])) \/ is_in(lower_day(names[i]), part)
         THEN {i - 1}
         ELSE first_matching_day(part, names, i + 1)

\* The loop body with a number taken as the day index itself.
add_part_ZeroBased(part, names, available) ==
    IF part = "" THEN available
    ELSE IF is_int(part) THEN available \cup {int(part)}
    ELSE available \cup first_matching_day(part, names, 1)

\* The body of the loop over the parts, for a trimmed and lower-cased part:
\* what available is after it.
add_part(part, names, available) ==
    IF part = "" THEN available
    ELSE IF is_int(part) THEN available \cup {int(part) - 1}
    ELSE available \cup first_matching_day(part, names, 1)

\* The loop over the parts, available being the set built so far.
RECURSIVE parse_parts(_, _, _)
parse_parts(parts, names, available) ==
    IF parts = <<>> THEN available
    ELSE parse_parts(Tail(parts), names,
            add_part(lower_day(strip(Head(parts))), names, available))

parse_available_days(avail_str, names) == parse_parts(avail_str, names, {})

\* The timeslots read_schedule_csv returned: one per day, or none.
DaySlot(i, name) ==
    [id |-> <<i, "09:00", "10:00">>, from_hour |-> "09:00",
     to_hour |-> "10:00", day_index |-> i, day_name |-> name]

AvailSchedules ==
    { <<>>, <<DaySlot(0, "Wednesday")>>,
      <<DaySlot(0, "Wednesday"), DaySlot(1, "Thursday")>>,
      <<DaySlot(0, "Thursday"), DaySlot(1, "Wednesday")>> }

\* day_names = list(day_map.keys()): the day names in the order of their
\* day_index.
day_names ==
    [ i \in 1..Cardinality(DOMAIN day_map) |->
        CHOOSE name \in DOMAIN day_map : day_map[name] = i - 1 ]

\* A row of the talks CSV of the OR-Tools variant.
AvailRow ==
    [track : {"A"}, level : {"", "advanced"}, speaker_names : {{"Alice"}},
     avail_str : AvailStrings]

AvailFiles == { <<>> } \cup { <<r>> : r \in AvailRow }

AvailInit ==
    /\ timeslots \in AvailSchedules
    /\ rows \in AvailFiles
    /\ rooms = Room
    /\ talks = <<>>
    /\ speakers = <<>>
    /\ timeslot = <<>>
    /\ room = <<>>
    /\ status_msg = <<>>
    /\ scheduled = <<>>
    /\ pc = "reading_talks"

\* One iteration of `for row in reader` of read_talks_csv (OR-Tools): the
\* Talk of the row Len(talks) + 1.
ReadAvailRow ==
    /\ pc = "reading_talks"
    /\ Len(talks) < Len(rows)
    /\ LET row == rows[Len(talks) + 1]
           audience_level == IF upper(row.level) # "" THEN upper(row.level)
                             ELSE "INTERMEDIATE"
       IN  talks' = Append(talks,
              [track_name |-> row.track,
               audience_level |-> audience_level,
               speaker_names |-> row.speaker_names,
               available_days |->
                  IF row.avail_str # <<"">>
                  THEN parse_available_days(row.avail_str, day_names)
                  ELSE {},
               flow_order |-> level_order([audience_level |-> audience_level])])
    /\ UNCHANGED <<timeslots, rooms, speakers, timeslot, room, rows,
                   status_msg, scheduled, pc>>

\* `return talks`
ReturnAvailTalks ==
    /\ pc = "reading_talks"
    /\ Len(talks) = Len(rows)
    /\ pc' = "talks_read"
    /\ UNCHANGED <<timeslots, rooms, talks, speakers, timeslot, room, rows,
                   status_msg, scheduled>>

AvailNext == ReadAvailRow \/ ReturnAvailTalks

SpecAvail == AvailInit /\ [][AvailNext]_vars

\* ------------------------------------------------------------------------
\* Claims about the SolverForge constraints (specification Spec)
\* ------------------------------------------------------------------------
HoldsPair(a) == timeslot[a] # None /\ room[a] # None

SameTimeslot(a1, a2) == timeslot[a1] # None /\ timeslot[a1] = timeslot[a2]

ShareSpeaker(a1, a2) == talks[a1].speakers \cap talks[a2].speakers # {}

\* C1: a total hard penalty of 0 implies that no two distinct talks hold the
\* same (timeslot, room), no two distinct talks sharing a speaker hold the
\* same timeslot, no two distinct talks of the same track hold the same
\* timeslot, and the day of every assigned talk is allowed by each of its
\* speakers.
C1_HardZeroImpliesFeasible ==
    HardScore(TalkIds) = 0 =>
        /\ \A a1, a2 \in TalkIds :
              a1 # a2 /\ HoldsPair(a1) /\ HoldsPair(a2)
                 => ~ (timeslot[a1] = timeslot[a2] /\ room[a1] = room[a2])
        /\ \A a1, a2 \in TalkIds :
              a1 # a2 /\ ShareSpeaker(a1, a2) => ~ SameTimeslot(a1, a2)
        /\ \A a1, a2 \in TalkIds :
              a1 # a2 /\ talks[a1].track_name = talks[a2].track_name
                 => ~ SameTimeslot(a1, a2)
        /\ \A a \in TalkIds :
              timeslot[a] # None =>
                 \A s \in talks[a].speakers :
                    speakers[s] = {} \/ get_day_index(a) \in speakers[s]

\* C1 witness: a complete schedule with hard penalty 0 in which two talks
\* share a speaker and a track and a speaker has restricted days.
C1_Witness ==
    /\ HardScore(TalkIds) = 0
    /\ \A a \in TalkIds : HoldsPair(a)
    /\ \E a1, a2 \in TalkIds :
          /\ a1 # a2
          /\ ShareSpeaker(a1, a2)
          /\ talks[a1].track_name = talks[a2].track_name
          /\ \E s \in talks[a1].speakers : speakers[s] # {}

RECURSIVE SharedSpeakerCount(_)
SharedSpeakerCount(pairs) ==
    IF pairs = {} THEN 0
    ELSE LET p == CHOOSE x \in pairs : TRUE
         IN  Cardinality(talks[p[1]].speakers \cap talks[p[2]].speakers)
               + SharedSpeakerCount(pairs \ {p})

\* C5 (as claimed): the speaker-conflict constraint adds exactly 1 per
\* unordered pair of distinct talks that share at least one speaker and hold
\* the same timeslot, however many speakers they have in common.
C5_OnePerTalkPair ==
    speaker_conflict(TalkIds) =
        Cardinality({ p \in UniquePairs(TalkIds) :
            ShareSpeaker(p[1], p[2]) /\ SameTimeslot(p[1], p[2]) })

\* C5 (amended): the speaker-conflict constraint adds exactly 1 per speaker
\* shared by an unordered pair of distinct talks that hold the same timeslot
\* (a pair with k common speakers adds k), whatever their rooms.
C5_OnePerSharedSpeaker ==
    speaker_conflict(TalkIds) =
        SharedSpeakerCount({ p \in UniquePairs(TalkIds) :
            SameTimeslot(p[1], p[2]) })

\* C5 witness: two talks with two common speakers in the same timeslot and
\* in different rooms.
C5_Witness ==
    \E p \in UniquePairs(TalkIds) :
        /\ Cardinality(talks[p[1]].speakers \cap talks[p[2]].speakers) = 2
        /\ SameTimeslot(p[1], p[2])
        /\ HoldsPair(p[1]) /\ HoldsPair(p[2])
        /\ room[p[1]] # room[p[2]]
        /\ speaker_conflict(TalkIds) = 2

\* C6: a talk that holds no timeslot contributes to no constraint: the hard
\* and the soft score are those of the schedule without that talk, whatever
\* its room.
C6_UnassignedTalkExempt ==
    \A a \in TalkIds :
        timeslot[a] = None =>
            /\ HardScore(TalkIds) = HardScore(TalkIds \ {a})
            /\ SoftScore(TalkIds) = SoftScore(TalkIds \ {a})

\* ------------------------------------------------------------------------
\* Claims about read_talks_csv (specification SpecCsv)
\* ------------------------------------------------------------------------
\* The non-empty availabilities declared for a speaker by the rows read.
Declared(id) ==
    { rows[i].available_days : i \in { j \in 1..Len(talks) :
        /\ rows[j].available_days # {}
        /\ id \in { speaker_id(n) : n \in rows[j].speaker_names } } }

\* C2: the merged speaker is never available on a day that one of the
\* non-empty availabilities declared for that name excludes.
C2_MostRestrictiveWins ==
    \A id \in DOMAIN speakers :
        \A d \in Days :
            (\E decl \in Declared(id) : d \notin decl)
                => ~ is_available_on(speakers[id], d)

\* ------------------------------------------------------------------------
\* Claims about solve_schedule (specification SpecOrt)
\* ------------------------------------------------------------------------
TalksOf == DOMAIN timeslot

ScheduledTalks == { t \in TalksOf : HoldsPair(t) }

\* The status is the feasible one.
FeasibleStatus ==
    Len(status_msg) > 0 /\ status_msg[1] \in {"OPTIMAL", "FEASIBLE"}

\* The solver ended its search (it did not run into its time limit
\* without a solution).
SearchCompleted == Len(status_msg) > 0 /\ status_msg[1] # "UNKNOWN"

capacity == Cardinality(timeslots) * Cardinality(rooms)

OrtPairs == { p \in TalksOf \X TalksOf : p[1] < p[2] }

\* The hard violations of the returned schedule, one per violating pair
\* (room, speaker, track) and one per talk on a day it is not available.
OrtHardViolations ==
    Cardinality({ p \in OrtPairs :
        /\ HoldsPair(p[1]) /\ HoldsPair(p[2])
        /\ timeslot[p[1]] = timeslot[p[2]] /\ room[p[1]] = room[p[2]] })
    + Cardinality({ p \in OrtPairs :
        has_speaker_overlap(talks[p[1]], talks[p[2]]) /\ SameTimeslot(p[1], p[2]) })
    + Cardinality({ p \in OrtPairs :
        /\ talks[p[1]].track_name = talks[p[2]].track_name
        /\ SameTimeslot(p[1], p[2]) })
    + Cardinality({ t \in TalksOf :
        /\ timeslot[t] # None
        /\ ~ is_available_on(talks[t].available_days, get_day_index(t)) })

NoSharedSpeakerOrTrack(ts) ==
    \A t1, t2 \in ts :
        t1 # t2 => /\ ~ has_speaker_overlap(talks[t1], talks[t2])
                   /\ talks[t1].track_name # talks[t2].track_name

\* C3: with 2 timeslots, 1 room and 3 talks sharing no speaker and no track,
\* the solve ends with exactly 2 talks scheduled, 1 unassigned, no hard
\* violation and a status other than the feasible one; in general, with
\* more such talks than (timeslot, room) pairs, as many talks as there are
\* pairs are scheduled and the others stay unassigned.
C3_CapacityShortfall ==
    /\ ( /\ pc = "done" /\ SearchCompleted
         /\ num_talks = 3 /\ Cardinality(timeslots) = 2 /\ Cardinality(rooms) = 1
         /\ NoSharedSpeakerOrTrack(TalksOf)
         /\ \A t \in TalksOf : talks[t].available_days = {} )
       => /\ Cardinality(ScheduledTalks) = 2
          /\ Cardinality(TalksOf \ ScheduledTalks) = 1
          /\ OrtHardViolations = 0
          /\ ~ FeasibleStatus
    /\ ( /\ pc = "done" /\ SearchCompleted
         /\ capacity > 0 /\ num_talks > capacity
         /\ NoSharedSpeakerOrTrack(TalksOf)
         /\ \A t \in TalksOf : talks[t].available_days = {} )
       => /\ Cardinality(ScheduledTalks) = capacity
          /\ OrtHardViolations = 0

\* C4: when the only speaker of a talk is available on no day that has a
\* timeslot, and the other talks fit the schedule (no speaker or track
\* shared by any two talks, no restricted day, no more of them than pairs),
\* the solve ends with that talk unassigned, every other talk scheduled, and
\* a status other than the feasible one.
C4_UnavailableSpeakerTalk ==
    \A t \in TalksOf :
        ( /\ pc = "done" /\ SearchCompleted
          /\ num_talks >= 2 /\ num_talks - 1 <= capacity
          /\ Cardinality(talks[t].speaker_names) = 1
          /\ talks[t].available_days # {}
          /\ \A s \in timeslots :
                TimeslotOf(s).day_index \notin talks[t].available_days
          /\ NoSharedSpeakerOrTrack(TalksOf)
          /\ \A u \in TalksOf \ {t} : talks[u].available_days = {} )
        => /\ ~ HoldsPair(t)
           /\ \A u \in TalksOf \ {t} : HoldsPair(u)
           /\ ~ FeasibleStatus

\* The level-flow penalty of the claim: the unordered pairs of assigned
\* talks of one track and one day whose higher-level talk has the strictly
\* smaller slot_index.
LevelFlowPairs ==
    { p \in OrtPairs :
        /\ timeslot[p[1]] # None /\ timeslot[p[2]] # None
        /\ talks[p[1]].track_name = talks[p[2]].track_name
        /\ get_day_index(p[1]) = get_day_index(p[2])
        /\ \/ /\ level_order(talks[p[1]]) > level_order(talks[p[2]])
              /\ get_slot_index(p[1]) < get_slot_index(p[2])
           \/ /\ level_order(talks[p[2]]) > level_order(talks[p[1]])
              /\ get_slot_index(p[2]) < get_slot_index(p[1]) }

\* C7: in both variants the level-flow soft penalty is the number of
\* unordered pairs of assigned talks sharing a track and a day whose
\* higher-level talk has the strictly smaller slot_index; pairs on
\* different days contribute nothing.
C7_LevelFlowPenalty ==
    /\ pc = "solving" =>
          educational_flow_level(TalkIds) = Cardinality(LevelFlowPairs)
    /\ pc = "done" /\ FeasibleStatus =>
          status_msg[2] = Cardinality(LevelFlowPairs)

\* The talks that list a speaker of talk t.
TalksOfSpeaker(n) ==
    { u \in TalksOf : lower(n) \in { lower(m) : m \in talks[u].speaker_names } }

\* The days declared for speaker n, merged: the days no declaration excludes.
MergedDays(n) ==
    { d \in Days : \A u \in TalksOfSpeaker(n) :
        talks[u].available_days = {} \/ d \in talks[u].available_days }

\* C8: a schedule returned with status OPTIMAL or FEASIBLE places each talk
\* on a day available to each of its speakers, the availability of a
\* speaker being the intersection of the availabilities declared on all the
\* talks listing that speaker (here: whenever that intersection has a day).
C8_MergedAvailabilityRespected ==
    pc = "done" /\ FeasibleStatus =>
        \A t \in TalksOf : \A n \in talks[t].speaker_names :
            MergedDays(n) # {} => get_day_index(t) \in MergedDays(n)

\* C9: the status is the feasible one exactly when the returned schedule
\* has no hard violation and every talk assigned; otherwise, unless there
\* is no timeslot or no room, the best-effort schedule is still returned
\* (some talk is placed).
C9_StatusReflectsSchedule ==
    pc = "done" /\ SearchCompleted =>
        /\ FeasibleStatus <=>
              (OrtHardViolations = 0 /\ ScheduledTalks = TalksOf)
        /\ (~ FeasibleStatus /\ num_talks > 0 /\ capacity > 0)
              => ScheduledTalks # {}

\* C10: a solve started with zero talks, zero timeslots or zero rooms
\* aborts before any solving and yields no status and no schedule, and no
\* other solve aborts.
C10_StructuralErrorAborts ==
    /\ (num_talks = 0 \/ timeslots = {} \/ rooms = {})
          => (pc # "done" /\ status_msg = <<>>)
    /\ pc = "aborted" => (num_talks = 0 \/ timeslots = {} \/ rooms = {})

\* The talks listed by the outputs.
OutputTalks == { scheduled[i] : i \in 1..Len(scheduled) }

\* C11: every talk given to the solve appears in the reported result,
\* either listed with its (timeslot, room) pair or recorded as unassigned;
\* the result consists of the status message and the rows of the outputs,
\* and the status message names no talk.
C11_EveryTalkReported ==
    pc = "written" => \A t \in TalksOf : t \in OutputTalks

\* ------------------------------------------------------------------------
\* Claims about the order of the talks (specification SpecOrder)
\* ------------------------------------------------------------------------
\* C15: the score does not depend on the order of the talks:
\* _violates_level_flow and _violates_flow_order give the same answer for
\* (a1, a2) and (a2, a1), and the hard and the soft total are the same after
\* the talks list is permuted.
C15_OrderIndependent ==
    /\ [](\A a1, a2 \in TalkIds :
            /\ _violates_level_flow(a1, a2) = _violates_level_flow(a2, a1)
            /\ _violates_flow_order(a1, a2) = _violates_flow_order(a2, a1))
    /\ [][ (\E i, j \in TalkIds : i < j /\ ReorderTalks(i, j))
             => /\ HardScore(TalkIds)' = HardScore(TalkIds)
                /\ SoftScore(TalkIds)' = SoftScore(TalkIds) ]_vars

\* C15 witness: the talk earlier in the list is of the higher level and
\* sits in the earlier timeslot of the same track and day, in another room:
\* both flow rules and the room rule penalize the pair, whichever of the
\* two talks comes first in the list.
C15_Witness ==
    \E p \in UniquePairs(TalkIds) :
        /\ level_order(talks[p[1]]) > level_order(talks[p[2]])
        /\ _violates_level_flow(p[2], p[1])
        /\ _violates_flow_order(p[2], p[1])
        /\ SoftScore(TalkIds) = 3

\* ------------------------------------------------------------------------
\* Claims about the flow-order rule (specification SpecFlow)
\* ------------------------------------------------------------------------
\* The pairs the flow-order rule is claimed to penalize: both talks hold a
\* timeslot, share the track and the day, have flow_orders that are not 0
\* and not equal, and the talk of the larger flow_order has the strictly
\* smaller slot_index.
FlowOrderInverted(a1, a2) ==
    /\ timeslot[a1] # None /\ timeslot[a2] # None
    /\ talks[a1].track_name = talks[a2].track_name
    /\ get_day_index(a1) = get_day_index(a2)
    /\ talks[a1].flow_order # 0 /\ talks[a2].flow_order # 0
    /\ talks[a1].flow_order # talks[a2].flow_order
    /\ \/ /\ talks[a1].flow_order > talks[a2].flow_order
          /\ get_slot_index(a1) < get_slot_index(a2)
       \/ /\ talks[a2].flow_order > talks[a1].flow_order
          /\ get_slot_index(a2) < get_slot_index(a1)

\* C16: the flow-order rule penalizes a pair of talks by exactly 1 when the
\* pair is inverted in the sense above, and by 0 otherwise; a pair in which
\* a flow_order is 0 or the flow_orders are equal is never penalized.
C16_FlowOrderPenalty ==
    /\ \A p \in UniquePairs(TalkIds) :
          /\ educational_flow_order({p[1], p[2]}) =
                 IF FlowOrderInverted(p[1], p[2]) THEN 1 ELSE 0
          /\ ( \/ talks[p[1]].flow_order = 0 \/ talks[p[2]].flow_order = 0
               \/ talks[p[1]].flow_order = talks[p[2]].flow_order )
                => educational_flow_order({p[1], p[2]}) = 0
    /\ educational_flow_order(TalkIds) =
          Cardinality({ p \in UniquePairs(TalkIds) :
                          FlowOrderInverted(p[1], p[2]) })

\* C16 witness: an inverted pair of talks with flow_orders 2 and 1, the
\* only penalty of the rule.
C16_Witness ==
    \E p \in UniquePairs(TalkIds) :
        /\ talks[p[1]].flow_order = 2 /\ talks[p[2]].flow_order = 1
        /\ FlowOrderInverted(p[1], p[2])
        /\ educational_flow_order(TalkIds) = 1

\* ------------------------------------------------------------------------
\* Claims about the converged solve (specification SpecOrt)
\* ------------------------------------------------------------------------
\* Talks b and a are the BEGINNER and the ADVANCED talk of a track that
\* has no other talk, and the schedule has two timeslots, on the same day.
BeginnerAdvancedTrack(b, a) ==
    /\ talks[b].audience_level = "BEGINNER"
    /\ talks[a].audience_level = "ADVANCED"
    /\ talks[b].track_name = talks[a].track_name
    /\ \A t \in TalksOf \ {a, b} : talks[t].track_name # talks[a].track_name
    /\ Cardinality(timeslots) = 2
    /\ \A s1, s2 \in timeslots :
          TimeslotOf(s1).day_index = TimeslotOf(s2).day_index

\* C17: for a track of one BEGINNER and one ADVANCED talk and two timeslots
\* on the same day, the schedule returned with status OPTIMAL has the
\* BEGINNER talk in the timeslot of the smaller slot_index, and its
\* level-flow penalty is 0.
C17_BeginnerFirstWhenOptimal ==
    \A b, a \in TalksOf :
        ( /\ pc = "done"
          /\ status_msg[1] = "OPTIMAL"
          /\ BeginnerAdvancedTrack(b, a) )
        => /\ HoldsPair(b) /\ HoldsPair(a)
           /\ get_slot_index(b) < get_slot_index(a)
           /\ status_msg[2] = 0
           /\ LevelFlowPairs = {}

\* C17 witness: the ADVANCED talk comes first in the talks list, a third
\* talk is in another track, and the OPTIMAL schedule has the BEGINNER talk
\* in the earlier timeslot.
C17_Witness ==
    /\ pc = "done"
    /\ status_msg[1] = "OPTIMAL"
    /\ num_talks = 3
    /\ \E b, a \in TalksOf :
          /\ a < b
          /\ BeginnerAdvancedTrack(b, a)
          /\ get_slot_index(b) < get_slot_index(a)

\* ------------------------------------------------------------------------
\* Claims about read_schedule_csv (specification SpecSched)
\* ------------------------------------------------------------------------
\* The Timeslot objects made so far.
TimeslotsRead == { timeslots[i] : i \in 1..Len(timeslots) }

\* t1 starts earlier in the day than t2.
StartsEarlier(t1, t2) ==
    LET hm1 == split_hm(t1.from_hour)
        hm2 == split_hm(t2.from_hour)
    IN  hm1[1] < hm2[1] \/ (hm1[1] = hm2[1] /\ hm1[2] < hm2[2])

\* The order of the days and of the starts within a day, as slot_index
\* gives it.
DayMajorTimeMinor ==
    \A t1, t2 \in TimeslotsRead :
        /\ t1.day_index < t2.day_index
              => slot_index_of(t1) < slot_index_of(t2)
        /\ (t1.day_index = t2.day_index /\ StartsEarlier(t1, t2))
              => slot_index_of(t1) < slot_index_of(t2)

\* C18 (as claimed): for starts from 00:00 to 23:59 a timeslot of an
\* earlier day has a strictly smaller slot_index than every timeslot of a
\* later day, within a day the earlier start has the strictly smaller
\* slot_index, and two distinct timeslots never have the same slot_index.
C18_TotalOrderingKey ==
    /\ DayMajorTimeMinor
    /\ \A t1, t2 \in TimeslotsRead :
          t1 # t2 => slot_index_of(t1) # slot_index_of(t2)

\* C18 (amended): the order of the days and of the starts is as claimed,
\* and two timeslots have the same slot_index exactly when they are on the
\* same day and start at the same time; timeslots that differ in their end
\* only are distinct and have the same slot_index.
C18_OrderingKeyOfDayAndStart ==
    /\ DayMajorTimeMinor
    /\ \A t1, t2 \in TimeslotsRead :
          slot_index_of(t1) = slot_index_of(t2)
             <=> (t1.day_index = t2.day_index /\ t1.from_hour = t2.from_hour)
    /\ pc = "schedule_read" =>
          \A i, j \in 1..Len(timeslots) :
              i < j => slot_index_of(timeslots[i]) <= slot_index_of(timeslots[j])

\* C18 witness: the schedule read has the last minute of the first day and
\* the first minute of the second day, sorted in that order.
C18_Witness ==
    /\ pc = "schedule_read"
    /\ Len(timeslots) = 2
    /\ timeslots[1].day_index = 0 /\ timeslots[1].from_hour = "23:59"
    /\ timeslots[2].day_index = 1 /\ timeslots[2].from_hour = "00:00"

\* ------------------------------------------------------------------------
\* Claims about the order of the rows (specification SpecCsv)
\* ------------------------------------------------------------------------
\* speakers_dict after read_talks_csv has read the rows of `list`, starting
\* from dict.
RECURSIVE ReadSpeakers(_, _)
ReadSpeakers(dict, list) ==
    IF list = <<>> THEN dict
    ELSE ReadSpeakers(MergeSpeakers(dict, Head(list).speaker_names,
                                    Head(list).available_days),
                      Tail(list))

\* The orders in which the rows of the file can be listed.
RowOrders ==
    { f \in [1..Len(rows) -> 1..Len(rows)] :
        \A i, j \in 1..Len(rows) : i # j => f[i] # f[j] }

\* C19: the availability read_talks_csv computes for a speaker does not
\* depend on the order of the rows: the file read in any other order gives
\* every speaker the same merged set of days.
C19_MergeOrderIndependent ==
    pc = "read" =>
        \A f \in RowOrders :
            ReadSpeakers(<<>>, [i \in 1..Len(rows) |-> rows[f[i]]]) = speakers

\* ------------------------------------------------------------------------
\* Claims about talks read and then solved (specification SpecMain)
\* ------------------------------------------------------------------------
\* The level rank of a level column: 1, 2 or 3, and 2 for an empty column
\* or a word that is no level.
RankOfColumn(column) ==
    CASE column = "beginner" -> 1
      [] column = "advanced" -> 3
      [] OTHER -> 2

\* C20: a talk built by read_talks_csv has the level rank as its
\* flow_order (2 for an empty or unrecognized level), so that for every
\* pair of assigned talks _violates_flow_order holds exactly when
\* _violates_level_flow holds, and each level inversion within a track and
\* a day costs 2 soft points, one from each rule.
C20_FlowOrderIsLevelRank ==
    /\ \A t \in DOMAIN talks :
          /\ talks[t].flow_order = RankOfColumn(rows[t].level)
          /\ talks[t].flow_order = level_order(talks[t])
    /\ pc = "solving" =>
          /\ \A a1, a2 \in DOMAIN timeslot :
                _violates_flow_order(a1, a2) <=> _violates_level_flow(a1, a2)
          /\ educational_flow_level(DOMAIN timeslot)
                = Cardinality(LevelFlowPairs)
          /\ educational_flow_order(DOMAIN timeslot)
                = Cardinality(LevelFlowPairs)
          /\ \A p \in UniquePairs(DOMAIN timeslot) :
                educational_flow_level({p[1], p[2]})
                  + educational_flow_order({p[1], p[2]}) \in {0, 2}

\* C20 witness: a talk of an unrecognized level placed before a BEGINNER
\* talk of its track on the same day: both rules penalize the pair.
C20_Witness ==
    /\ pc = "solving"
    /\ \E p \in UniquePairs(DOMAIN timeslot) :
          /\ rows[p[1]].level = "expert" /\ rows[p[2]].level = "beginner"
          /\ _violates_level_flow(p[1], p[2])
          /\ educational_flow_level(DOMAIN timeslot)
                + educational_flow_order(DOMAIN timeslot) = 2

\* ------------------------------------------------------------------------
\* Claims about what solve_schedule changes (specification SpecOrt)
\* ------------------------------------------------------------------------
\* C21: solve_schedule is all-or-nothing: when it ends with OPTIMAL or
\* FEASIBLE every talk has both a timeslot and a room, and when it ends
\* with any other status no timeslot and no room is changed and the status
\* message has no soft-penalty part.
C21_AllOrNothing ==
    [][ (pc = "start" /\ pc' = "done") =>
          /\ Len(status_msg') > 0
          /\ status_msg'[1] \in {"OPTIMAL", "FEASIBLE"} =>
                \A t \in DOMAIN talks :
                    timeslot'[t] # None /\ room'[t] # None
          /\ status_msg'[1] \notin {"OPTIMAL", "FEASIBLE"} =>
                /\ timeslot' = timeslot
                /\ room' = room
                /\ Len(status_msg') = 1 ]_vars

\* C21 witness: three talks of which two share a track, two timeslots and
\* two rooms; the solve has ended FEASIBLE and every talk holds a pair.
C21_Witness ==
    /\ pc = "done"
    /\ Len(status_msg) = 2 /\ status_msg[1] = "FEASIBLE"
    /\ num_talks = 3
    /\ \A t \in TalksOf : HoldsPair(t)

\* ------------------------------------------------------------------------
\* Claims about talks without a track name (specification SpecTracks)
\* ------------------------------------------------------------------------
\* Both talks of the pair have an empty track name.
BothWithoutTrack(a1, a2) ==
    talks[a1].track_name = "" /\ talks[a2].track_name = ""

\* The pairs of talks of one track (the empty name included) whose
\* higher-level talk holds the timeslot of the smaller slot_index.
SameTrackInversions ==
    { p \in OrtPairs :
        /\ talks[p[1]].track_name = talks[p[2]].track_name
        /\ timeslot[p[1]] # None /\ timeslot[p[2]] # None
        /\ \/ /\ level_order(talks[p[1]]) > level_order(talks[p[2]])
              /\ get_slot_index(p[1]) < get_slot_index(p[2])
           \/ /\ level_order(talks[p[2]]) > level_order(talks[p[1]])
              /\ get_slot_index(p[2]) < get_slot_index(p[1]) }

\* C22: talks with an empty track name form one common track in both
\* variants. SolverForge: two such talks in the same timeslot are a track
\* conflict, and the pair is penalized by the two flow rules and by the
\* room rule under the conditions of any same-track pair. OR-Tools: two
\* such talks never share a timeslot in a returned schedule, and their
\* level inversions are counted in the soft penalty with those of the
\* named tracks.
C22_EmptyTrackIsOneTrack ==
    /\ pc = "solving" =>
          \A p \in UniquePairs(TalkIds) :
              BothWithoutTrack(p[1], p[2]) =>
                 /\ track_conflict({p[1], p[2]}) =
                       IF SameTimeslot(p[1], p[2]) THEN 1 ELSE 0
                 /\ educational_flow_level({p[1], p[2]}) =
                       IF p \in LevelFlowPairs THEN 1 ELSE 0
                 /\ educational_flow_order({p[1], p[2]}) =
                       IF FlowOrderInverted(p[1], p[2]) THEN 1 ELSE 0
                 /\ track_room_consistency({p[1], p[2]}) =
                       IF /\ room[p[1]] # None /\ room[p[2]] # None
                          /\ room[p[1]] # room[p[2]]
                          /\ EqualDayIndex(p[1], p[2])
                       THEN 1 ELSE 0
    /\ (pc = "done" /\ FeasibleStatus) =>
          /\ \A p \in OrtPairs :
                BothWithoutTrack(p[1], p[2]) => timeslot[p[1]] # timeslot[p[2]]
          /\ status_msg[2] = Cardinality(SameTrackInversions)

\* C22 witness: solve_schedule has returned a schedule in which the
\* ADVANCED talk of two talks without a track name comes first, in the
\* same room: the pair is in different timeslots and costs 1 soft point.
C22_Witness ==
    /\ pc = "done"
    /\ FeasibleStatus
    /\ status_msg[2] = 1
    /\ \E p \in SameTrackInversions :
          /\ BothWithoutTrack(p[1], p[2])
          /\ room[p[1]] = room[p[2]]

\* ------------------------------------------------------------------------
\* Claims about parse_available_days (specification SpecAvail)
\* ------------------------------------------------------------------------
\* The tokens of an availability cell: its parts, trimmed and lower-cased,
\* that are not empty.
TokensOf(avail_str) ==
    { lower_day(strip(avail_str[i])) : i \in 1..Len(avail_str) } \ {""}

\* The day names, counted from 1, that contain the token or are contained
\* in it.
MatchingDays(token) ==
    { i \in 1..Len(day_names) :
         \/ is_in(token, lower_day(day_names[i]))
         \/ is_in(lower_day(day_names[i]), token) }

\* What the claim lets one token add.
TokenDays(token) ==
    IF is_int(token) THEN {int(token) - 1}
    ELSE IF MatchingDays(token) = {} THEN {}
    ELSE {(CHOOSE i \in MatchingDays(token) :
              \A j \in MatchingDays(token) : i <= j) - 1}

Unmatched(token) == ~ is_int(token) /\ MatchingDays(token) = {}

\* C23: the available days of every talk read are the union over the
\* tokens of its availability cell of what each token adds by itself: a
\* numeric token n adds n - 1, any other token adds the index of the first
\* day name that contains it or is contained in it, ignoring case, and a
\* token matching no day adds nothing; a cell made only of unmatched tokens
\* gives the empty set, with which is_available_on holds on every day.
C23_TokensParsedIndependently ==
    \A t \in DOMAIN talks :
        LET tokens == TokensOf(rows[t].avail_str)
        IN  /\ talks[t].available_days = UNION { TokenDays(k) : k \in tokens }
            /\ (\A k \in tokens : Unmatched(k)) =>
                  /\ talks[t].available_days = {}
                  /\ \A d \in 0..Len(day_names) :
                        is_available_on(talks[t].available_days, d)

\* C23 witness: with two days named, a cell of a token that both day names
\* contain and a numeric token has been parsed to the first day and the
\* day of the number.
C23_Witness ==
    /\ pc = "talks_read"
    /\ Len(day_names) = 2
    /\ \E t \in DOMAIN talks :
          /\ TokensOf(rows[t].avail_str) = {"day", "2"}
          /\ talks[t].available_days = {0, 1}

====
